---- MODULE Spec2Model ----
(***************************************************************************)
(* A model of the RLP view decoder (src/src/rlpin.rs) and of the primitive *)
(* codecs (src/src/impls.rs).                                              *)
(*                                                                         *)
(* A byte is a number in 0..255 and a slice is a sequence of bytes; the    *)
(* code's 0-based index i is the sequence's index i+1.  A usize that is    *)
(* read from the input (a long-form length) is kept at its width of 64     *)
(* bits as a Word: 8 base-256 digits, most significant first.  usize       *)
(* values that are bounded by the length of a slice are plain numbers.     *)
(***************************************************************************)
EXTENDS Naturals, Sequences, FiniteSets

VARIABLES bytes, offset_cache, count_cache, it, last, typ, val

vars == <<bytes, offset_cache, count_cache, it, last, typ, val>>

(***************************************************************************)
(* Results: Ok(v), Err(e), and a panic (an out-of-bounds index or slice).  *)
(***************************************************************************)
Ok(v) == [tag |-> "Ok", val |-> v]

Panic == [tag |-> "Panic"]

IsOk(r) == r.tag = "Ok"

IsErr(r) == r.tag = "Err"

IsPanic(r) == r.tag = "Panic"

Err(kind) == [tag |-> "Err", kind |-> kind]

RlpIsTooShort(expected, got) ==
    [tag |-> "Err", kind |-> "RlpIsTooShort", expected |-> expected, got |-> got]

RlpInconsistentLengthAndData(max, index) ==
    [tag |-> "Err", kind |-> "RlpInconsistentLengthAndData", max |-> max, index |-> index]

RlpInvalidLength(expected, got) ==
    [tag |-> "Err", kind |-> "RlpInvalidLength", expected |-> expected, got |-> got]

ErrKind(r, kind) == r.tag = "Err" /\ r.kind = kind

(* the ? operator: the value of an Ok goes on, anything else is returned *)
Try(r, f(_)) == IF IsOk(r) THEN f(r.val) ELSE r

(* let v = ...; *)
Let(v, f(_)) == f(v)

(* Option<T>: None is the empty sequence, Some(x) the sequence of x alone. *)
None == <<>>

Some(x) == <<x>>

(***************************************************************************)
(* Slices.                                                                 *)
(***************************************************************************)
(* bytes[i]; the caller has checked i < bytes.len() *)
At0(s, i) == s[i + 1]

(* &bytes[a..b]; the caller has checked a <= b <= bytes.len() *)
Sub(s, a, b) == SubSeq(s, a + 1, b)

(* whether &bytes[a..b] is in bounds *)
SliceOk(s, a, b) == a <= b /\ b <= Len(s)

Rep(b, n) == [i \in 1..n |-> b]

Contains(s, b) == \E i \in 1..Len(s) : s[i] = b

(***************************************************************************)
(* 64-bit words.                                                           *)
(***************************************************************************)
usize_bytes == 8

(* a number below 2^31 as a word *)
WFromNat(n) ==
    <<0, 0, 0, 0, (n \div 16777216) % 256, (n \div 65536) % 256, (n \div 256) % 256, n % 256>>

usize_MAX == <<255, 255, 255, 255, 255, 255, 255, 255>>

(* whether the word is below 2^31 *)
WIsSmall(w) == w[1] = 0 /\ w[2] = 0 /\ w[3] = 0 /\ w[4] = 0 /\ w[5] < 128

WToNat(w) == ((w[5] * 256 + w[6]) * 256 + w[7]) * 256 + w[8]

(* w <= n and n < w, for a number n below 2^31 *)
WLeqNat(w, n) == WIsSmall(w) /\ WToNat(w) <= n

NatLtW(n, w) == ~WLeqNat(w, n)

(* the carry into digit i of a + b: a lower digit overflows and every      *)
(* digit between carries on; i = 0 is the carry out of the first digit     *)
WCarryInto(a, b, i) ==
    IF \E j \in (i + 1)..usize_bytes :
           a[j] + b[j] >= 256 /\ \A k \in (i + 1)..(j - 1) : a[k] + b[k] = 255
    THEN 1 ELSE 0

(* digit i of a + b *)
WDigit(a, b, i) == (a[i] + b[i] + WCarryInto(a, b, i)) % 256

(* the 8 digits of a + b modulo 2^64 and the carry out of the first *)
WAddC(a, b) ==
    [sum |-> <<WDigit(a, b, 1), WDigit(a, b, 2), WDigit(a, b, 3), WDigit(a, b, 4),
               WDigit(a, b, 5), WDigit(a, b, 6), WDigit(a, b, 7), WDigit(a, b, 8)>>,
     carry |-> WCarryInto(a, b, 0)]

(* a + b modulo 2^64 *)
WAdd(a, b) == WAddC(a, b).sum

(* usize::checked_add: None on overflow *)
some_if_no_carry(r) == IF r.carry # 0 THEN None ELSE Some(r.sum)

checked_add(a, b) == some_if_no_carry(WAddC(a, b))

(***************************************************************************)
(* impls.rs: decode_usize                                                  *)
(***************************************************************************)
(* digit j of the sum over i of (bytes[i] as usize) << (l - 1 - i) * 8: the *)
(* shifted bytes fall on distinct digits, so the additions never carry     *)
decode_usize_digit(s, l, j) ==
    IF j > usize_bytes - l THEN At0(s, j - (usize_bytes - l) - 1) ELSE 0

(* the loop of decode_usize over l <= 8 bytes *)
decode_usize_loop(s, l) ==
    <<decode_usize_digit(s, l, 1), decode_usize_digit(s, l, 2),
      decode_usize_digit(s, l, 3), decode_usize_digit(s, l, 4),
      decode_usize_digit(s, l, 5), decode_usize_digit(s, l, 6),
      decode_usize_digit(s, l, 7), decode_usize_digit(s, l, 8)>>

decode_usize(s) ==
    IF Len(s) <= usize_bytes
    THEN IF Len(s) = 0 THEN Panic
         ELSE IF At0(s, 0) = 0 THEN Err("RlpInvalidIndirection")
         ELSE Ok(decode_usize_loop(s, Len(s)))
    ELSE Err("RlpIsTooBig")

(***************************************************************************)
(* rlpin.rs: PayloadInfo and the header grammar                            *)
(***************************************************************************)
PayloadInfo_new(header_len, value_len) ==
    [header_len |-> header_len, value_len |-> value_len]

calculate_payload_info(header_bytes, len_of_len) ==
    Let(1 + len_of_len, LAMBDA header_len :
    IF Len(header_bytes) < 2 THEN RlpIsTooShort(1, 0)
    ELSE IF At0(header_bytes, 1) = 0 THEN Err("RlpDataLenWithZeroPrefix")
    ELSE IF Len(header_bytes) < header_len
         THEN RlpIsTooShort(header_len, Len(header_bytes))
    ELSE Try(decode_usize(Sub(header_bytes, 1, header_len)), LAMBDA value_len :
         IF WLeqNat(value_len, 55) THEN Err("RlpInvalidIndirection")
         ELSE Ok(PayloadInfo_new(header_len, value_len))))

PayloadInfo_from(header_bytes) ==
    IF header_bytes = <<>> THEN RlpIsTooShort(1, 0)
    ELSE Let(At0(header_bytes, 0), LAMBDA l :
         CASE l <= 127 -> Ok(PayloadInfo_new(0, WFromNat(1)))
           [] l >= 128 /\ l <= 183 -> Ok(PayloadInfo_new(1, WFromNat(l - 128)))
           [] l >= 184 /\ l <= 191 -> calculate_payload_info(header_bytes, l - 183)
           [] l >= 192 /\ l <= 247 -> Ok(PayloadInfo_new(1, WFromNat(l - 192)))
           [] OTHER -> calculate_payload_info(header_bytes, l - 247))

(* BasicDecoder::payload_info: once it returns Ok, header_len + value_len  *)
(* is at most bytes.len().                                                 *)
payload_info(s) ==
    Try(PayloadInfo_from(s), LAMBDA item :
    Let(checked_add(WFromNat(item.header_len), item.value_len), LAMBDA x :
        IF x # None /\ WLeqNat(x[1], Len(s)) THEN Ok(item)
        ELSE RlpIsTooShort(1, 0)))

(* header_len + value_len of a PayloadInfo that payload_info returned *)
TotalOf(pi) == pi.header_len + WToNat(pi.value_len)

(* PayloadInfo::total on any PayloadInfo: header_len + value_len at the    *)
(* width of usize, with the carry out of the word                          *)
PayloadInfo_total(pi) == WAddC(WFromNat(pi.header_len), pi.value_len)

(* what total() can do on the result of PayloadInfo::from: the addition is *)
(* unchecked, so on overflow it panics (overflow checks on) or wraps       *)
(* (overflow checks off)                                                   *)
total_outcomes(from) ==
    IF ~IsOk(from) THEN {from}
    ELSE IF PayloadInfo_total(from.val).carry # 0
    THEN {Panic, Ok(PayloadInfo_total(from.val).sum)}
    ELSE {Ok(PayloadInfo_total(from.val).sum)}

(***************************************************************************)
(* rlpin.rs: the view Rlp { bytes, offset_cache, count_cache }             *)
(***************************************************************************)
OffsetCache_new(index, offset) == [index |-> index, offset |-> offset]

is_null(s) == s = <<>>

is_empty(s) == ~is_null(s) /\ (At0(s, 0) = 192 \/ At0(s, 0) = 128)

is_list(s) == ~is_null(s) /\ At0(s, 0) >= 192

is_data(s) == ~is_null(s) /\ At0(s, 0) < 192

(* self.bytes[1] and self.bytes[payload_idx] are indexed as the code does: *)
(* the first without a check of the length.                                *)
is_int(s) ==
    IF is_null(s) THEN Ok(FALSE)
    ELSE Let(At0(s, 0), LAMBDA b :
         CASE b <= 128 -> Ok(TRUE)
           [] b >= 129 /\ b <= 183 ->
                IF 1 < Len(s) THEN Ok(At0(s, 1) # 0) ELSE Panic
           [] b >= 184 /\ b <= 191 ->
                Ok((1 + b - 183) < Len(s) /\ At0(s, 1 + b - 183) # 0)
           [] OTHER -> Ok(FALSE))

(* map(|b| b.value_len).unwrap_or(0) *)
value_len_or_0(b) == IF IsOk(b) THEN WToNat(b.val.value_len) ELSE 0

size(s) == IF ~is_data(s) THEN 0 ELSE value_len_or_0(payload_info(s))

data(s) ==
    Try(payload_info(s), LAMBDA pi :
        IF SliceOk(s, pi.header_len, TotalOf(pi))
        THEN Ok(Sub(s, pi.header_len, TotalOf(pi)))
        ELSE Panic)

(* consumes slice prefix of length len *)
consume(s, len) ==
    IF Len(s) >= len THEN Ok(Sub(s, len, Len(s)))
    ELSE RlpIsTooShort(len, Len(s))

(* consumes first found prefix: Ok of the payload slice and header_len *)
consume_list_payload(s) ==
    Try(payload_info(s), LAMBDA item :
    Let(TotalOf(item), LAMBDA expected :
        IF Len(s) < expected THEN RlpIsTooShort(expected, Len(s))
        ELSE IF ~SliceOk(s, item.header_len, expected) THEN Panic
        ELSE Ok([bytes |-> Sub(s, item.header_len, expected),
                 consumed |-> item.header_len])))

(* consumes fixed number of items *)
RECURSIVE consume_items_loop(_, _, _)
consume_items_loop(result, consumed, items) ==
    IF items = 0 THEN Ok([bytes |-> result, consumed |-> consumed])
    ELSE Try(payload_info(result), LAMBDA i :
         Let(TotalOf(i), LAMBDA to_consume :
         Try(consume(result, to_consume), LAMBDA rest :
             consume_items_loop(rest, consumed + to_consume, items - 1))))

consume_items(s, items) == consume_items_loop(s, 0, items)

(* the first half of at(): move to the cached position if its index is     *)
(* less or equal to the search index, otherwise to the beginning of list   *)
at_start(s, cache, index) ==
    IF cache # None /\ cache[1].index <= index
    THEN Try(consume(s, cache[1].offset), LAMBDA r :
             Ok([bytes |-> r, indexes_to_skip |-> index - cache[1].index,
                 bytes_consumed |-> cache[1].offset]))
    ELSE Try(consume_list_payload(s), LAMBDA r :
             Ok([bytes |-> r.bytes, indexes_to_skip |-> index,
                 bytes_consumed |-> r.consumed]))

(* what at() returns: res, the result (Ok of the child's bytes); start,    *)
(* the offset in the parent's bytes at which the child's slice begins;     *)
(* offset_cache, the cache the call leaves.                                *)
AtRes(res, start, cache) == [res |-> res, start |-> start, offset_cache |-> cache]

(* at(), from the update of the cache on: construct new rlp *)
at_found(rest, new_offset, new_cache, found) ==
    IF ~IsOk(found) THEN AtRes(found, 0, new_cache)
    ELSE IF ~SliceOk(rest, 0, TotalOf(found.val)) THEN AtRes(Panic, 0, new_cache)
    ELSE AtRes(Ok(Sub(rest, 0, TotalOf(found.val))), new_offset, new_cache)

(* at() without the check of new_offset against offset_max: the cache is   *)
(* updated wherever the skipped items end                                  *)
at_checked_unbounded(cache, index, rest, new_offset, pi) ==
    IF ~IsOk(pi) THEN AtRes(pi, 0, cache)
    ELSE at_found(rest, new_offset, Some(OffsetCache_new(index, new_offset)),
                  payload_info(rest))

(* at(), the check of new_offset against offset_max *)
at_checked(cache, index, rest, new_offset, pi) ==
    IF ~IsOk(pi) THEN AtRes(pi, 0, cache)
    ELSE IF TotalOf(pi.val) = 0 THEN AtRes(Panic, 0, cache)
    ELSE IF new_offset > TotalOf(pi.val) - 1
    THEN AtRes(RlpIsTooShort(new_offset, TotalOf(pi.val) - 1), 0, cache)
    ELSE at_found(rest, new_offset, Some(OffsetCache_new(index, new_offset)),
                  payload_info(rest))

(* at(), after the items to skip were consumed *)
at_skipped(s, cache, index, bytes_consumed, sk) ==
    IF ~IsOk(sk) THEN AtRes(sk, 0, cache)
    ELSE at_checked(cache, index, sk.val.bytes, bytes_consumed + sk.val.consumed,
                    payload_info(s))

at_skip(s, cache, index, st) ==
    IF ~IsOk(st) THEN AtRes(st, 0, cache)
    ELSE at_skipped(s, cache, index, st.val.bytes_consumed,
                    consume_items(st.val.bytes, st.val.indexes_to_skip))

at(s, cache, index) ==
    IF ~is_list(s) THEN AtRes(Err("RlpExpectedToBeList"), 0, cache)
    ELSE at_skip(s, cache, index, at_start(s, cache, index))

(* RlpIterator::next at position index: at(index).ok(), None is <<>> *)
next_of(r) ==
    [item |-> IF IsOk(r.res) THEN Some(r.res.val) ELSE None,
     panic |-> IsPanic(r.res),
     offset_cache |-> r.offset_cache]

RlpIterator_next(s, cache, index) == next_of(at(s, cache, index))

(* self.iter().count(): next() until the first None *)
RECURSIVE iter_count(_, _, _)
iter_count(s, cache, index) ==
    Let(RlpIterator_next(s, cache, index), LAMBDA n :
        IF n.panic THEN [panic |-> TRUE, c |-> index, offset_cache |-> n.offset_cache]
        ELSE IF n.item = None
        THEN [panic |-> FALSE, c |-> index, offset_cache |-> n.offset_cache]
        ELSE iter_count(s, n.offset_cache, index + 1))

(* what a call that may fill both caches returns *)
ViewRes(res, cache, count) == [res |-> res, offset_cache |-> cache, count_cache |-> count]

item_count(s, cache, count) ==
    IF ~is_list(s) THEN ViewRes(Err("RlpExpectedToBeList"), cache, count)
    ELSE IF count # None THEN ViewRes(Ok(count[1]), cache, count)
    ELSE Let(iter_count(s, cache, 0), LAMBDA c :
             IF c.panic THEN ViewRes(Panic, c.offset_cache, count)
             ELSE ViewRes(Ok(c.c), c.offset_cache, Some(c.c)))

prototype(s, cache, count) ==
    IF is_data(s) THEN ViewRes(Ok([kind |-> "Data", n |-> size(s)]), cache, count)
    ELSE IF is_list(s)
    THEN Let(item_count(s, cache, count), LAMBDA c :
             ViewRes(IF IsOk(c.res) THEN Ok([kind |-> "List", n |-> c.res.val]) ELSE c.res,
                     c.offset_cache, c.count_cache))
    ELSE ViewRes(Ok([kind |-> "Null", n |-> 0]), cache, count)

(***************************************************************************)
(* rlpin.rs: BasicDecoder::decode_value.  f is the closure of the caller.  *)
(***************************************************************************)
(* decode_value_short without the check of line 437: a single byte below   *)
(* 0x80 behind the prefix 0x81 is handed to the closure                    *)
decode_value_short_unchecked(s, l, last_index_of) ==
    IF Len(s) < last_index_of
    THEN RlpInconsistentLengthAndData(Len(s), WFromNat(last_index_of))
    ELSE Ok(Sub(s, 1, last_index_of))

(* decode_value_long handing the closure the length bytes with the payload *)
decode_value_long_from_prefix(s, begin_of_value) ==
    IF Len(s) < begin_of_value
    THEN RlpInconsistentLengthAndData(Len(s), WFromNat(begin_of_value))
    ELSE Try(decode_usize(Sub(s, 1, begin_of_value)), LAMBDA len :
         Let(checked_add(WFromNat(begin_of_value), len), LAMBDA last_index_of_value :
             IF last_index_of_value = None
             THEN RlpInvalidLength(usize_MAX, usize_MAX)
             ELSE IF NatLtW(Len(s), last_index_of_value[1])
             THEN RlpInconsistentLengthAndData(Len(s), last_index_of_value[1])
             ELSE Ok(Sub(s, 1, WToNat(last_index_of_value[1])))))

(* 0x80..=0xb7: 0-55 bytes.  Ok of the slice the closure is given. *)
decode_value_short(s, l, last_index_of) ==
    IF Len(s) < last_index_of
    THEN RlpInconsistentLengthAndData(Len(s), WFromNat(last_index_of))
    ELSE IF l = 129 /\ At0(Sub(s, 1, last_index_of), 0) < 128
    THEN Err("RlpInvalidIndirection")
    ELSE Ok(Sub(s, 1, last_index_of))

(* 0xb8..=0xbf: longer than 55 bytes.  Ok of the slice the closure is given. *)
decode_value_long(s, begin_of_value) ==
    IF Len(s) < begin_of_value
    THEN RlpInconsistentLengthAndData(Len(s), WFromNat(begin_of_value))
    ELSE Try(decode_usize(Sub(s, 1, begin_of_value)), LAMBDA len :
         Let(checked_add(WFromNat(begin_of_value), len), LAMBDA last_index_of_value :
             IF last_index_of_value = None
             THEN RlpInvalidLength(usize_MAX, usize_MAX)
             ELSE IF NatLtW(Len(s), last_index_of_value[1])
             THEN RlpInconsistentLengthAndData(Len(s), last_index_of_value[1])
             ELSE Ok(Sub(s, begin_of_value, WToNat(last_index_of_value[1])))))

(* decode_value up to the call of the closure: Ok of the slice the closure  *)
(* is given.  The caller applies the closure; Ok(f(..)?) is f's own result. *)
decode_value(s) ==
    IF s = <<>> THEN RlpIsTooShort(1, 0)
    ELSE CASE At0(s, 0) <= 127 -> Ok(<<At0(s, 0)>>)
           [] At0(s, 0) >= 128 /\ At0(s, 0) <= 183 ->
                decode_value_short(s, At0(s, 0), 1 + At0(s, 0) - 128)
           [] At0(s, 0) >= 184 /\ At0(s, 0) <= 191 ->
                decode_value_long(s, 1 + (At0(s, 0) - 183))
           [] OTHER -> Err("RlpExpectedToBeData")

(***************************************************************************)
(* impls.rs: the Decodable implementations.  A u8 is a number; a wider     *)
(* unsigned integer of w bytes is the sequence of its w big-endian bytes;  *)
(* a hash is its bytes; a String is its UTF-8 bytes.                       *)
(***************************************************************************)
u16_size == 2

u32_size == 4

u64_size == 8

U256_size == 32

H128_size == 16

H160_size == 20

H256_size == 32

H512_size == 64

H520_size == 65

(* the big-endian bytes d as an unsigned integer of w bytes, Len(d) <= w *)
PadLeft(d, w) == Rep(0, w - Len(d)) \o d

decode_bool(s) ==
    Try(decode_value(s), LAMBDA b :
        CASE Len(b) = 0 -> Ok(FALSE)
          [] Len(b) = 1 -> Ok(At0(b, 0) # 0)
          [] OTHER -> Err("RlpIsTooBig"))

decode_u8(s) ==
    Try(decode_value(s), LAMBDA b :
        CASE Len(b) = 1 /\ At0(b, 0) # 0 -> Ok(At0(b, 0))
          [] Len(b) = 0 -> Ok(0)
          [] Len(b) = 1 -> Err("RlpInvalidIndirection")
          [] OTHER -> Err("RlpIsTooBig"))

(* impl_decodable_for_u!: res + ((bytes[i] as $name) << shift) over the l  *)
(* bytes puts byte i at big-endian position size - l + i.                  *)
decode_u(s, size_of) ==
    Try(decode_value(s), LAMBDA b :
        CASE Len(b) <= 1 ->
               Try(decode_u8(s), LAMBDA v : Ok(PadLeft(<<v>>, size_of)))
          [] Len(b) > 1 /\ Len(b) <= size_of ->
               IF At0(b, 0) = 0 THEN Err("RlpInvalidIndirection")
               ELSE Ok(PadLeft(b, size_of))
          [] OTHER -> Err("RlpIsTooBig"))

decode_usize_type(s) == decode_u(s, u64_size)

decode_hash(s, size_of) ==
    Try(decode_value(s), LAMBDA b :
        CASE Len(b) < size_of -> Err("RlpIsTooShort")
          [] Len(b) > size_of -> Err("RlpIsTooBig")
          [] OTHER -> Ok(b))

decode_uint(s, size_of) ==
    Try(decode_value(s), LAMBDA b :
        IF b # <<>> /\ At0(b, 0) = 0 THEN Err("RlpInvalidIndirection")
        ELSE IF Len(b) <= size_of THEN Ok(PadLeft(b, size_of))
        ELSE Err("RlpIsTooBig"))

decode_bytes(s) == Try(decode_value(s), LAMBDA b : Ok(b))

(* str::from_utf8: whether the bytes are well-formed UTF-8 *)
IsCont(b) == b >= 128 /\ b <= 191

(* the length of the character a first byte announces, 0 when the byte     *)
(* cannot start a character                                                *)
utf8_char_width(c) ==
    CASE c <= 127 -> 1
      [] c >= 194 /\ c <= 223 -> 2
      [] c >= 224 /\ c <= 239 -> 3
      [] c >= 240 /\ c <= 244 -> 4
      [] OTHER -> 0

(* a well-formed character starts at position i of b *)
utf8_char_at(b, i) ==
    LET c == b[i]
        w == utf8_char_width(c)
    IN  /\ w >= 1
        /\ i + w - 1 <= Len(b)
        /\ \A j \in (i + 1)..(i + w - 1) : IsCont(b[j])
        /\ (c = 224 => b[i + 1] >= 160)
        /\ (c = 237 => b[i + 1] <= 159)
        /\ (c = 240 => b[i + 1] >= 144)
        /\ (c = 244 => b[i + 1] <= 143)
        /\ (i + w <= Len(b) => ~IsCont(b[i + w]))

(* every byte that is not a continuation byte starts a well-formed         *)
(* character, and the first byte is not a continuation byte                *)
from_utf8_ok(b) ==
    /\ (b # <<>> => ~IsCont(b[1]))
    /\ \A i \in 1..Len(b) : ~IsCont(b[i]) => utf8_char_at(b, i)

decode_string(s) ==
    Try(decode_value(s), LAMBDA b :
        IF Contains(b, 0) THEN Err("RlpNullTerminatedString")
        ELSE IF from_utf8_ok(b) THEN Ok(b)
        ELSE Err("RlpExpectedToBeData"))

(***************************************************************************)
(* The types.  A type is a sequence of names: a base type alone, or        *)
(* "Option" followed by the type of its value; Vec<Vec<u8>> is one name.   *)
(***************************************************************************)
IntTypes == {"u8", "u16", "u32", "u64", "usize", "U256"}

HashTypes == {"H128", "H160", "H256", "H512", "H520"}

DataTypes == {"bool", "Vec_u8", "String"} \cup IntTypes \cup HashTypes

(* the width in bytes of an integer or hash type *)
SizeOf(t) ==
    CASE t = "u8" -> 1
      [] t = "u16" -> u16_size
      [] t = "u32" -> u32_size
      [] t = "u64" -> u64_size
      [] t = "usize" -> usize_bytes
      [] t = "U256" -> U256_size
      [] t = "H128" -> H128_size
      [] t = "H160" -> H160_size
      [] t = "H256" -> H256_size
      [] t = "H512" -> H512_size
      [] t = "H520" -> H520_size

(* T::decode for a type that reads a data item; the view's caches are not  *)
(* touched (decoder() works on a clone).                                   *)
decode_data(t, s) ==
    CASE t = "bool" -> decode_bool(s)
      [] t = "u8" -> decode_u8(s)
      [] t \in {"u16", "u32", "u64"} -> decode_u(s, SizeOf(t))
      [] t = "usize" -> decode_usize_type(s)
      [] t = "U256" -> decode_uint(s, SizeOf(t))
      [] t \in HashTypes -> decode_hash(s, SizeOf(t))
      [] t = "Vec_u8" -> decode_bytes(s)
      [] t = "String" -> decode_string(s)

(* as_list::<Vec<u8>>: self.iter().map(|rlp| rlp.as_val()).collect(); the  *)
(* first Err of an element ends the collection with that Err.              *)
RECURSIVE as_list_bytes(_, _, _, _)
as_list_bytes(s, cache, index, acc) ==
    Let(RlpIterator_next(s, cache, index), LAMBDA n :
        IF n.panic THEN ViewRes(Panic, n.offset_cache, None)
        ELSE IF n.item = None THEN ViewRes(Ok(acc), n.offset_cache, None)
        ELSE Let(decode_bytes(n.item[1]), LAMBDA v :
                 IF ~IsOk(v) THEN ViewRes(v, n.offset_cache, None)
                 ELSE as_list_bytes(s, n.offset_cache, index + 1, Append(acc, v.val))))

(* map(Some) *)
map_Some(v) == IF IsOk(v) THEN Ok(Some(v.val)) ELSE v

(* as_val::<T> on a view: the result and the caches the call leaves.       *)
(* Option<T>: item_count, then val_at(0) = at(0)?.as_val() on a new view.  *)
RECURSIVE as_val(_, _, _, _)
as_val(t, s, cache, count) ==
    CASE Head(t) = "Option" ->
           Let(item_count(s, cache, count), LAMBDA items :
               IF ~IsOk(items.res) THEN items
               ELSE CASE items.res.val = 1 ->
                           Let(at(s, items.offset_cache, 0), LAMBDA c :
                               IF ~IsOk(c.res)
                               THEN ViewRes(c.res, c.offset_cache, items.count_cache)
                               ELSE ViewRes(map_Some(as_val(Tail(t), c.res.val, None, None).res),
                                            c.offset_cache, items.count_cache))
                      [] items.res.val = 0 ->
                           ViewRes(Ok(None), items.offset_cache, items.count_cache)
                      [] OTHER ->
                           ViewRes(Err("RlpIncorrectListLen"), items.offset_cache,
                                   items.count_cache))
      [] Head(t) = "Vec_Vec_u8" ->
           Let(as_list_bytes(s, cache, 0, <<>>), LAMBDA l :
               ViewRes(l.res, l.offset_cache, count))
      [] OTHER -> ViewRes(decode_data(Head(t), s), cache, count)

(***************************************************************************)
(* The stream encoder (spec 4.2): the header of a data item and of a list. *)
(***************************************************************************)
(* a length as big-endian bytes with no leading zero *)
RECURSIVE to_be(_)
to_be(n) == IF n < 256 THEN <<n>> ELSE to_be(n \div 256) \o <<n % 256>>

(* append_value: the single-byte form, the short form up to 55 bytes, the  *)
(* long form beyond                                                        *)
encode_value(b) ==
    IF Len(b) = 1 /\ b[1] < 128 THEN b
    ELSE IF Len(b) <= 55 THEN <<128 + Len(b)>> \o b
    ELSE <<183 + Len(to_be(Len(b)))>> \o to_be(Len(b)) \o b

(* begin_list .. finish: the header is written once the payload is known   *)
encode_list(payload) ==
    IF Len(payload) <= 55 THEN <<192 + Len(payload)>> \o payload
    ELSE <<247 + Len(to_be(Len(payload)))>> \o to_be(Len(payload)) \o payload

(***************************************************************************)
(* impls.rs: the Encodable implementations                                 *)
(***************************************************************************)
(* leading_zeros() / 8 of an unsigned integer given as big-endian bytes *)
leading_empty_bytes(v) == Cardinality({i \in 1..Len(v) : \A j \in 1..i : v[j] = 0})

encode_bool(v) == IF v THEN encode_value(<<1>>) ELSE encode_value(<<0>>)

encode_u8(v) == IF v # 0 THEN encode_value(<<v>>) ELSE encode_value(<<>>)

(* impl_encodable_for_u! and impl_encodable_for_uint!: the big-endian      *)
(* buffer without its leading zero bytes                                   *)
encode_u(v) == encode_value(SubSeq(v, leading_empty_bytes(v) + 1, Len(v)))

(* (self.bits() + 7) / 8: the bytes up from the first non-zero one *)
significant_bytes(v) == Len(v) - leading_empty_bytes(v)

encode_uint(v) == encode_value(SubSeq(v, (Len(v) - significant_bytes(v)) + 1, Len(v)))

encode_hash(v) == encode_value(v)

encode_bytes(v) == encode_value(v)

encode_string(v) == encode_value(v)

RECURSIVE encode_items(_)
encode_items(v) ==
    IF v = <<>> THEN <<>> ELSE encode_bytes(Head(v)) \o encode_items(Tail(v))

encode_vec_of_bytes(v) == encode_list(encode_items(v))

encode_data(t, v) ==
    CASE t = "bool" -> encode_bool(v)
      [] t = "u8" -> encode_u8(v)
      [] t \in {"u16", "u32", "u64", "usize"} -> encode_u(v)
      [] t = "U256" -> encode_uint(v)
      [] t \in HashTypes -> encode_hash(v)
      [] t = "Vec_u8" -> encode_bytes(v)
      [] t = "String" -> encode_string(v)

(* encode(&v) for a value v of type t *)
RECURSIVE encode(_, _)
encode(t, v) ==
    CASE Head(t) = "Option" ->
           IF v = None THEN encode_list(<<>>)
           ELSE encode_list(encode(Tail(t), v[1]))
      [] Head(t) = "Vec_Vec_u8" -> encode_vec_of_bytes(v)
      [] OTHER -> encode_data(Head(t), v)

(* decode::<T>(bytes): as_val on a new view *)
decode(t, s) == as_val(t, s, None, None).res

(***************************************************************************)
(* Inputs.                                                                 *)
(***************************************************************************)
(* all sequences over A of length at most n *)
Seqs(A, n) == UNION {[1..k -> A] : k \in 0..n}

AllBytes == 0..255

(* the longest view buffer after its first byte, enumerated over           *)
(* ViewAlphabet, and the largest index given to at()                       *)
MaxViewLen == 3

MaxIndex == 2

(* a single byte, the header of a one-byte string and the header of a      *)
(* one-byte list                                                           *)
ViewAlphabet == {1, 129, 193}

ListHeads == {192, 193, 194}

(* a list in the long form: its one item is a string of 55 bytes; it is    *)
(* used alone and followed by one more byte                                *)
LongList == <<248, 56, 183>> \o Rep(1, 55)

ViewInputs ==
    {<<h>> \o r : h \in ListHeads, r \in Seqs(ViewAlphabet, MaxViewLen)}
        \cup {LongList, LongList \o <<1>>, <<1>>, <<129, 128>>, <<>>}

(***************************************************************************)
(* The view: Rlp::new(bytes), then at(), item_count(), iter() and the      *)
(* iterator's next() in any order.  last is the call made last and what it *)
(* returned; it is the iterator, when one is open.                         *)
(***************************************************************************)
Init ==
    /\ bytes \in ViewInputs
    /\ offset_cache = None
    /\ count_cache = None
    /\ it = None
    /\ last = [op |-> "new"]
    /\ typ = <<>>
    /\ val = <<>>

At(index) ==
    LET r == at(bytes, offset_cache, index) IN
    /\ offset_cache' = r.offset_cache
    /\ last' = [op |-> "at", index |-> index, res |-> r.res, start |-> r.start]
    /\ UNCHANGED <<bytes, count_cache, it, typ, val>>

ItemCount ==
    LET r == item_count(bytes, offset_cache, count_cache) IN
    /\ offset_cache' = r.offset_cache
    /\ count_cache' = r.count_cache
    /\ last' = [op |-> "item_count", index |-> 0, res |-> r.res, start |-> 0]
    /\ UNCHANGED <<bytes, it, typ, val>>

(* iter(): RlpIterator { rlp: self, index: 0 } *)
Iter ==
    /\ it' = Some([index |-> 0, done |-> FALSE])
    /\ last' = [op |-> "iter", index |-> 0, res |-> Ok(None), start |-> 0]
    /\ UNCHANGED <<bytes, offset_cache, count_cache, typ, val>>

(* RlpIterator::next, as a for loop drives it: until the first None *)
IterNext ==
    /\ it # None
    /\ ~it[1].done
    /\ LET n == RlpIterator_next(bytes, offset_cache, it[1].index) IN
       /\ offset_cache' = n.offset_cache
       /\ it' = Some([index |-> it[1].index + 1, done |-> n.item = None])
       /\ last' = [op |-> "next", index |-> it[1].index,
                   res |-> IF n.panic THEN Panic ELSE Ok(n.item), start |-> 0]
    /\ UNCHANGED <<bytes, count_cache, typ, val>>

Next ==
    \/ \E index \in 0..MaxIndex : At(index)
    \/ ItemCount
    \/ Iter
    \/ IterNext

Spec == Init /\ [][Next]_vars

(***************************************************************************)
(* Properties of the view.                                                 *)
(***************************************************************************)
(* the declared payload region of the view's own item, when its header is  *)
(* well-formed: the offsets header_len .. header_len + value_len           *)
ParentInfo == payload_info(bytes)

(* C8: when at(i) returns Ok(child), after any earlier calls on the view,  *)
(* the child's bytes lie inside the parent's declared payload region:      *)
(* child_start >= header_len and child_start + child.header_len +          *)
(* child.value_len <= header_len + value_len of the parent.                *)
C8_ChildInsideDeclaredPayload ==
    (last.op = "at" /\ IsOk(last.res)) =>
        /\ IsOk(ParentInfo)
        /\ last.start >= ParentInfo.val.header_len
        /\ last.start + TotalOf(payload_info(last.res.val).val) <= TotalOf(ParentInfo.val)

(* C9: on a list view on which item_count() returned n, a completed        *)
(* iteration yields exactly n sub-views, the k-th one equal to what at(k)  *)
(* returns, and at(n) returns RlpIsTooShort.                               *)
C9_IterationIndexingCoherence ==
    count_cache # None =>
        /\ (it # None /\ it[1].done) => it[1].index - 1 = count_cache[1]
        /\ (last.op = "next" /\ IsOk(last.res) /\ last.res.val # None) =>
               at(bytes, offset_cache, last.index).res = Ok(last.res.val[1])
        /\ (last.op = "at" /\ last.index = count_cache[1]) =>
               ErrKind(last.res, "RlpIsTooShort")

(* a result up to the numbers an error carries: Ok(v), or the error's kind *)
Outcome(r) == IF IsErr(r) THEN Err(r.kind) ELSE r

(* C10: the result of at(i), the child's bytes or the error, does not      *)
(* depend on the calls made on the view before: it is the result of at(i)  *)
(* on a new view over the same bytes.                                      *)
C10_AtIndependentOfCache ==
    last.op = "at" => Outcome(last.res) = Outcome(at(bytes, None, last.index).res)

(***************************************************************************)
(* The decoder on a new view: one call on Rlp::new(bytes), for bytes drawn *)
(* from DecodeInputs.  last is the call and what it returned.              *)
(***************************************************************************)
(* the longest buffer enumerated over DecodeAlphabet *)
MaxDecodeLen == 3

(* 0x00, 0x01, the empty string, a one-byte string header, a long string   *)
(* header with one length byte, a one-byte list header, a long list header *)
DecodeAlphabet == {0, 1, 128, 129, 184, 193, 248}

(* payload lengths around the widths of the types and the short/long       *)
(* boundary                                                                *)
PayloadLens == {2, 8, 9, 16, 20, 32, 33, 55, 56, 64, 65}

(* headers of a data item and of a list that declare a payload of n bytes: *)
(* headers of a string of n bytes: the short form, the long form with one  *)
(* length byte, and the long form with a zero first length byte            *)
DataHeadersFor(n) ==
    (IF n <= 55 THEN {<<128 + n>>} ELSE {}) \cup {<<184, n>>, <<185, 0, n>>}

(* the same for a list of n bytes *)
ListHeadersFor(n) ==
    (IF n <= 55 THEN {<<192 + n>>} ELSE {}) \cup {<<248, n>>, <<249, 0, n>>}

(* payloads of n bytes: with and without a leading zero byte *)
PayloadsOf(n) == {Rep(1, n), <<0>> \o Rep(1, n - 1)}

(* one string that takes k bytes with its header, k # 57 *)
OneString(k) ==
    IF k <= 1 THEN Rep(1, k)
    ELSE IF k <= 56 THEN <<128 + (k - 1)>> \o Rep(1, k - 1)
    ELSE <<184, k - 2>> \o Rep(1, k - 2)

(* list payloads of n bytes: one string, and a single byte before a string *)
ListPayloadsOf(n) == {OneString(n), <<0>> \o OneString(n - 1)}

(* a header and its payload: whole, followed by one more byte, and cut     *)
(* before the last byte                                                    *)
Cuts(h, q) == {h \o q, h \o q \o <<1>>, h \o SubSeq(q, 1, Len(q) - 1)}

ItemsOf(n) ==
    UNION ({Cuts(h, q) : h \in DataHeadersFor(n), q \in PayloadsOf(n)}
               \cup {Cuts(h, q) : h \in ListHeadersFor(n), q \in ListPayloadsOf(n)})

Items == UNION {ItemsOf(n) : n \in PayloadLens}

(* length fields at and near the top of the 64-bit range *)
HugeLengths ==
    {<<191>> \o Rep(255, 8), <<191>> \o Rep(255, 8) \o <<255, 255, 255, 229>>,
     <<255>> \o Rep(255, 8), <<191>> \o Rep(255, 7) \o <<246, 1>>,
     <<191, 1>> \o Rep(0, 7), <<187, 1, 0, 0, 0>>, <<251, 127, 255, 255, 255>>}

SmallLists == {<<192>>, <<193, 192>>, <<194, 193, 192>>, <<194, 1, 1>>, <<195, 130, 1, 1>>}

DecodeInputs ==
    Seqs(DecodeAlphabet, MaxDecodeLen)
        \cup {<<x>> : x \in AllBytes}
        \cup {<<129, x>> : x \in AllBytes}
        \cup Items \cup HugeLengths \cup SmallLists

DecodeTypes ==
    {<<t>> : t \in DataTypes}
        \cup {<<"Option", "u8">>, <<"Option", "Vec_u8">>, <<"Option", "Option", "u8">>,
              <<"Vec_Vec_u8">>}

InitDecode ==
    /\ bytes \in DecodeInputs
    /\ offset_cache = None
    /\ count_cache = None
    /\ it = None
    /\ last = [op |-> "new"]
    /\ typ = <<>>
    /\ val = <<>>

(* the call op with argument arg returned res; the view is dropped *)
Returned(op, arg, res) ==
    /\ last.op = "new"
    /\ last' = [op |-> op, arg |-> arg, res |-> res]
    /\ UNCHANGED <<bytes, offset_cache, count_cache, it, typ, val>>

(* the iteration of a for loop: the children up to the first None *)
RECURSIVE iter_collect(_, _, _, _)
iter_collect(s, cache, index, acc) ==
    Let(RlpIterator_next(s, cache, index), LAMBDA n :
        IF n.panic THEN Panic
        ELSE IF n.item = None THEN Ok(acc)
        ELSE iter_collect(s, n.offset_cache, index + 1, Append(acc, n.item[1])))

NewAsVal(t) == Returned("as_val", t, as_val(t, bytes, None, None).res)

NewPayloadInfo == Returned("payload_info", <<>>, payload_info(bytes))

NewData == Returned("data", <<>>, data(bytes))

NewAt(index) == Returned("at", <<index>>, at(bytes, None, index).res)

NewItemCount == Returned("item_count", <<>>, item_count(bytes, None, None).res)

NewPrototype == Returned("prototype", <<>>, prototype(bytes, None, None).res)

NewIter == Returned("iter", <<>>, iter_collect(bytes, None, 0, <<>>))

NewIsInt == Returned("is_int", <<>>, is_int(bytes))

NewSize == Returned("size", <<>>, Ok(size(bytes)))

NewIsNull == Returned("is_null", <<>>, Ok(is_null(bytes)))

NewIsEmpty == Returned("is_empty", <<>>, Ok(is_empty(bytes)))

NewIsData == Returned("is_data", <<>>, Ok(is_data(bytes)))

NewIsList == Returned("is_list", <<>>, Ok(is_list(bytes)))

(* PayloadInfo::from(bytes), then total() on the result *)
NewTotal == \E r \in total_outcomes(PayloadInfo_from(bytes)) : Returned("total", <<>>, r)

NextDecode ==
    \/ \E t \in DecodeTypes : NewAsVal(t)
    \/ NewPayloadInfo
    \/ NewData
    \/ \E index \in 0..MaxIndex : NewAt(index)
    \/ NewItemCount
    \/ NewPrototype
    \/ NewIter
    \/ NewIsInt
    \/ NewSize
    \/ NewIsNull
    \/ NewIsEmpty
    \/ NewIsData
    \/ NewIsList
    \/ NewTotal

SpecDecode == InitDecode /\ [][NextDecode]_vars

(***************************************************************************)
(* The codec: a value of a supported type is encoded, and the bytes are    *)
(* decoded as that type.                                                   *)
(***************************************************************************)
(* the longest byte string enumerated over ValueAlphabet, and the most     *)
(* elements of a Vec<Vec<u8>>                                              *)
MaxValueLen == 2

MaxItems == 2

(* 0xc3 0xa9 is a two-byte UTF-8 character *)
ValueAlphabet == {0, 1, 127, 128, 169, 195, 255}

ShortStrings == Seqs(ValueAlphabet, MaxValueLen)

(* byte strings on both sides of the short/long boundary *)
LongStrings == {<<x>> \o Rep(1, n - 1) : x \in {0, 1, 128}, n \in {55, 56, 57}}

ByteStrings == ShortStrings \cup LongStrings

(* unsigned integers of w bytes: small ones, and ones that fill the width *)
UintValues(w) ==
    {PadLeft(q, w) : q \in {x \in ShortStrings : Len(x) <= w}}
        \cup {q \o Rep(f, w - Len(q)) : q \in {x \in ShortStrings : Len(x) <= w}, f \in {0, 255}}

HashValues(n) == {q \o Rep(f, n - Len(q)) : q \in ShortStrings, f \in {0, 1}}

VecElements == {<<>>, <<1>>, <<128>>, <<0, 1, 2, 3, 4>>, Rep(1, 27), Rep(1, 56)}

DataValues(t) ==
    CASE t = "bool" -> BOOLEAN
      [] t = "u8" -> AllBytes
      [] t \in IntTypes \ {"u8"} -> UintValues(SizeOf(t))
      [] t \in HashTypes -> HashValues(SizeOf(t))
      [] t = "Vec_u8" -> ByteStrings
      [] t = "String" -> {b \in ByteStrings : from_utf8_ok(b)}

RECURSIVE Values(_)
Values(t) ==
    CASE Head(t) = "Option" -> {None} \cup {Some(v) : v \in Values(Tail(t))}
      [] Head(t) = "Vec_Vec_u8" -> Seqs(VecElements, MaxItems)
      [] OTHER -> DataValues(Head(t))

CodecTypes ==
    {<<t>> : t \in DataTypes}
        \cup {<<"Option", t>> : t \in {"u8", "Vec_u8", "String", "H512"}}
        \cup {<<"Option", "Option", "u8">>, <<"Vec_Vec_u8">>}

InitCodec ==
    /\ typ \in CodecTypes
    /\ val \in Values(typ)
    /\ bytes = <<>>
    /\ offset_cache = None
    /\ count_cache = None
    /\ it = None
    /\ last = [op |-> "new"]

(* encode(&val) *)
Encode ==
    /\ last.op = "new"
    /\ bytes' = encode(typ, val)
    /\ last' = [op |-> "encode"]
    /\ UNCHANGED <<offset_cache, count_cache, it, typ, val>>

(* decode::<T>(&encoded) *)
Decode ==
    /\ last.op = "encode"
    /\ last' = [op |-> "decode", res |-> decode(typ, bytes)]
    /\ UNCHANGED <<bytes, offset_cache, count_cache, it, typ, val>>

NextCodec == Encode \/ Decode

SpecCodec == InitCodec /\ [][NextCodec]_vars

(* whether the value is, or holds, a String with a NUL byte *)
RECURSIVE HasNulString(_, _)
HasNulString(t, v) ==
    CASE Head(t) = "Option" -> v # None /\ HasNulString(Tail(t), v[1])
      [] Head(t) = "String" -> Contains(v, 0)
      [] OTHER -> FALSE

(* C1 as stated: for every supported type and every value v of it,         *)
(* decode(encode(v)) returns Ok(v).                                        *)
C1_RoundTripEveryValue == last.op = "decode" => last.res = Ok(val)

(* C1 as amended: decode(encode(v)) returns Ok(v) for every value that is  *)
(* not, and does not hold, a String with a NUL byte; for such a value it   *)
(* returns the error RlpNullTerminatedString.                              *)
C1_RoundTripExceptNulString ==
    last.op = "decode" =>
        IF HasNulString(typ, val)
        THEN ErrKind(last.res, "RlpNullTerminatedString")
        ELSE last.res = Ok(val)

(* a hash of 64 bytes went through the long form and came back *)
C1_Witness ==
    /\ last.op = "decode"
    /\ typ = <<"H512">>
    /\ Len(bytes) = 66
    /\ last.res = Ok(val)

(***************************************************************************)
(* Properties of the decoder's entry points on a fresh view.               *)
(***************************************************************************)
(* C2: no entry point of the decoder panics, whatever the bytes are: every *)
(* call returns normally with a value or a DecoderError.                   *)
C2_DecoderNeverPanics == last.op # "new" => ~IsPanic(last.res)

(* C3: decoding as T returns Ok(v) only for the canonical encoding of v:   *)
(* the bytes decoded are exactly encode(v).                                *)
C3_OnlyCanonicalDecodes ==
    (last.op = "as_val" /\ IsOk(last.res)) => bytes = encode(last.arg, last.res.val)

(* the first byte announces the long form, of a string or of a list *)
IsLongForm(s) == Len(s) >= 2 /\ ((At0(s, 0) >= 184 /\ At0(s, 0) <= 191) \/ At0(s, 0) >= 248)

LenOfLen(s) == IF At0(s, 0) >= 248 THEN At0(s, 0) - 247 ELSE At0(s, 0) - 183

(* a long-form item, wholly in the buffer, whose length bytes start with a *)
(* non-zero byte and say 55 or less                                        *)
LongFormOfShortLength(s) ==
    /\ IsLongForm(s)
    /\ At0(s, 1) # 0
    /\ Len(s) >= 1 + LenOfLen(s)
    /\ LET n == decode_usize(Sub(s, 1, 1 + LenOfLen(s)))
       IN  IsOk(n) /\ WLeqNat(n.val, 55) /\ Len(s) >= 1 + LenOfLen(s) + WToNat(n.val)

(* the entry points that decode the item at the start of the view; at and  *)
(* the list types are asked of a list, the data types of a string          *)
DecodesItem ==
    \/ last.op \in {"payload_info", "data"}
    \/ last.op = "at" /\ is_list(bytes)
    \/ last.op = "as_val" /\ (Head(last.arg) \in {"Option", "Vec_Vec_u8"} <=> is_list(bytes))

(* C4: a long-form item whose declared length is 55 or less is rejected    *)
(* with RlpInvalidIndirection on every entry point.                        *)
C4_LongFormShortLengthRejected ==
    (LongFormOfShortLength(bytes) /\ DecodesItem) => ErrKind(last.res, "RlpInvalidIndirection")

(* C5: a long-form item whose first length byte is zero is rejected with   *)
(* RlpDataLenWithZeroPrefix on every entry point.                          *)
C5_ZeroLengthPrefixRejected ==
    (IsLongForm(bytes) /\ At0(bytes, 1) = 0 /\ DecodesItem) =>
        ErrKind(last.res, "RlpDataLenWithZeroPrefix")

(* a well-formed data item that fills the buffer *)
WellFormedData(s) ==
    /\ is_data(s)
    /\ IsOk(payload_info(s))
    /\ TotalOf(payload_info(s).val) = Len(s)

(* C6: decoding a well-formed data item as an unsigned integer type of w   *)
(* bytes returns RlpIsTooBig when the payload is longer than w, whatever   *)
(* the payload bytes are.                                                  *)
C6_LongPayloadIsTooBig ==
    (/\ last.op = "as_val"
     /\ Head(last.arg) \in IntTypes
     /\ WellFormedData(bytes)
     /\ NatLtW(SizeOf(Head(last.arg)), payload_info(bytes).val.value_len))
        => ErrKind(last.res, "RlpIsTooBig")

(* the two bytes 0x81, x with x below 0x80 *)
SingleByteBehindPrefix(s) == Len(s) = 2 /\ At0(s, 0) = 129 /\ At0(s, 1) <= 127

(* C7: the bytes 0x81, x with x in 0x00..=0x7f decode as any unsigned      *)
(* integer type to the error RlpInvalidIndirection.                        *)
C7_SingleByteIndirectionRejected ==
    (last.op = "as_val" /\ Head(last.arg) \in IntTypes /\ SingleByteBehindPrefix(bytes))
        => ErrKind(last.res, "RlpInvalidIndirection")

(* 0x81 0x01 was decoded as a u64 and rejected *)
C7_Witness ==
    /\ last.op = "as_val"
    /\ last.arg = <<"u64">>
    /\ bytes = <<129, 1>>
    /\ ErrKind(last.res, "RlpInvalidIndirection")

(* the items that fill the bytes p exactly, one after the other: Ok of     *)
(* their number, or the error of the first header that cannot be read      *)
RECURSIVE CountItems(_, _)
CountItems(p, n) ==
    IF p = <<>> THEN Ok(n)
    ELSE IF ~IsOk(payload_info(p)) THEN payload_info(p)
    ELSE CountItems(Sub(p, TotalOf(payload_info(p).val), Len(p)), n + 1)

(* the children of a well-formed list: the view is a list, its declared    *)
(* payload is in the buffer, and the children fill the payload exactly     *)
ChildrenOf(s) ==
    IF ~is_list(s) THEN Err("RlpExpectedToBeList")
    ELSE IF ~IsOk(payload_info(s)) THEN payload_info(s)
    ELSE CountItems(Sub(s, payload_info(s).val.header_len, TotalOf(payload_info(s).val)), 0)

(* C11: as_list (the decode of Vec<Vec<u8>>) and the decode of Option<T>   *)
(* return Ok only on a well-formed list, with the value built from all its *)
(* children; on a view that is no list, on a malformed or truncated child  *)
(* and on a payload that overruns the buffer they return Err.              *)
C11_NoPartialValues ==
    (last.op = "as_val" /\ Head(last.arg) \in {"Option", "Vec_Vec_u8"} /\ IsOk(last.res)) =>
        /\ IsOk(ChildrenOf(bytes))
        /\ Len(last.res.val) = ChildrenOf(bytes).val

(* C12: on a view whose item is a list, data() returns an error.           *)
C12_DataOfListIsError ==
    (last.op = "data" /\ is_list(bytes)) => IsErr(last.res)

(* header_len + value_len of the item at the start of s exceeds the word   *)
LengthOverflows(s) ==
    /\ IsOk(PayloadInfo_from(s))
    /\ PayloadInfo_total(PayloadInfo_from(s).val).carry # 0

(* C13: when header_len + value_len of an item exceeds the platform word,  *)
(* the operation reading the item (as_val, payload_info, data, at,         *)
(* PayloadInfo::total) reports RlpInvalidLength; it does not wrap, panic   *)
(* or return another error.                                                *)
C13_LengthOverflowIsInvalidLength ==
    (LengthOverflows(bytes) /\ (DecodesItem \/ last.op = "total")) =>
        ErrKind(last.res, "RlpInvalidLength")

(* the declared payload of the view's item, whose header is well-formed *)
DeclaredPayload(s) ==
    Sub(s, payload_info(s).val.header_len, TotalOf(payload_info(s).val))

(* the first j children, walked from the start of the declared payload *)
FirstChildren(s, j) == consume_items(DeclaredPayload(s), j)

(* C14: in every reachable state of a view, after any at(), iter(), next() *)
(* and item_count() calls, successful or failed, a cache entry (j, off)    *)
(* has off = header_len + the total sizes of the children 0..j-1, and      *)
(* header_len <= off <= header_len + value_len - 1 of the list.            *)
C14_OffsetCacheInvariant ==
    offset_cache # None =>
        /\ is_list(bytes)
        /\ IsOk(payload_info(bytes))
        /\ IsOk(FirstChildren(bytes, offset_cache[1].index))
        /\ offset_cache[1].offset =
               payload_info(bytes).val.header_len
                   + FirstChildren(bytes, offset_cache[1].index).val.consumed
        /\ offset_cache[1].offset >= payload_info(bytes).val.header_len
        /\ offset_cache[1].offset <= TotalOf(payload_info(bytes).val) - 1

(* the cache points at the second child, behind an at() that failed, on a  *)
(* buffer that is longer than the list                                     *)
C14_Witness ==
    /\ offset_cache # None
    /\ offset_cache[1].index = 1
    /\ offset_cache[1].offset = 2
    /\ last.op = "at"
    /\ IsErr(last.res)
    /\ Len(bytes) > TotalOf(payload_info(bytes).val)
====
